---- MODULE Spec2Model ----
(***************************************************************************)
(* Fulfilment pipeline of the Telegram content bot: the payments table and *)
(* the content_library table (database.py), the delivery executor          *)
(* (delivery_automater.py) and the polling loop (Continous_delivery.py).   *)
(*                                                                         *)
(* Every `await` of process_delivery is a separate step, so that the other *)
(* clients of the database (payment callback, expiry janitor, catalogue    *)
(* maintenance) can act between two steps of one delivery.                 *)
(***************************************************************************)
EXTENDS Integers, Sequences, FiniteSets, TLC

(***************************************************************************)
(* Bounds of the model.                                                    *)
(***************************************************************************)
NumPayments == 2
NumContents == 1
MaxTime == 2
MaxCount == 2
NumItems == 2
MaxName == 2
MaxHint == 3
NumChunks == 2

(***************************************************************************)
(* Program constants.                                                      *)
(***************************************************************************)
\* Config.REQUEST_EXPIRY_HOURS, substituted into expiry_timestamp
REQUEST_EXPIRY_HOURS == 1

\* ContinuousDelivery.__init__(check_interval=300)
check_interval == 300
\* asyncio.sleep(60) of the handler of run_continuous
cooldown == 60
\* max_retry_interval = 3600 of run_with_exponential_backoff
max_retry_interval == 3600
\* the factor 60 of 60 * (2 ** retry_count)
backoff_unit == 60
\* Continous_delivery.py imports asyncio, sys, os, time, signal, logging,
\* datetime and Config: the name `random` is bound nowhere in the module
random_imported == FALSE

Min(a, b) == IF a < b THEN a ELSE b

PaymentIds == 1..NumPayments
ContentIds == 1..NumContents
\* content ids of the catalogues the matcher is checked on
ItemIds == 1..NumItems
\* SQL NULL in payments.content_id, Python None for a missing row
NULL == 0

\* the characters of names and hints: two letters, one of them in both
\* cases, and whitespace
Chars == {"a", "A", "b", " "}

\* the strings of at most n characters, as sequences of characters
Strings(n) == UNION {[1..k -> Chars] : k \in 0..n}

\* str.lower() of Python and LOWER() of the database
lower(str) == [i \in DOMAIN str |-> IF str[i] = "A" THEN "a" ELSE str[i]]

\* arguments of add_content: content_name, google_drive_file_id, file_type
Names == Strings(MaxName)
DriveIds == {"drive1", "drive2"}
FileTypes == {"document", "video"}

VARIABLES
    now,                 \* NOW() of the database server
    payments,            \* table payments: payment_id -> row
    content_library,     \* table content_library: content_id -> row
    used_content_ids,    \* uuid4 values already handed out
    pc,                  \* position of the worker
    caller,              \* who called process_delivery: "batch" or "cli"
    pending_deliveries,  \* rows read by Checking and not yet tallied
    payment_id,          \* argument payment_id of process_delivery
    content_id,          \* argument content_id of process_delivery
    payment,             \* local `payment` of process_delivery: the rows read
    content,             \* local `content` of process_delivery
    success_count,       \* per-batch counter
    error_count,         \* per-batch counter
    ret,                 \* value returned by process_delivery
    why,                 \* the message process_delivery printed on return
    fx,                  \* side effects performed by the current call
    sent,                \* per payment: completed send_video/send_document
    linked,              \* per payment: write-backs done by process_delivery
    running,             \* self.running
    mode,                \* which run function: "fixed" or "exponential"
    retry_count,         \* local of run_with_exponential_backoff
    backoff_time,        \* local of its handler, 0 before the first error
    wait_time,           \* argument of the asyncio.sleep in progress, else 0
    prev,                \* how the previous loop iteration ended
    connections,         \* database pool and Drive service: "open" or "closed"
    other,               \* a second scheduler process on the same database
    probe                \* a call of the matcher on its own, and its result

vars == <<now, payments, content_library, used_content_ids, pc, caller,
          pending_deliveries, payment_id, content_id, payment, content,
          success_count, error_count, ret, why, fx, sent, linked,
          running, mode, retry_count, backoff_time, wait_time, prev,
          connections, other, probe>>

ledger == <<now, payments, content_library, used_content_ids>>
worker == <<pc, caller, pending_deliveries, payment_id, content_id, payment,
            content,
            success_count, error_count, ret, why, fx, sent, linked,
            running, mode, retry_count, backoff_time, wait_time, prev,
          connections, other, probe>>

\* the state of the run function around the batch, and the second process
loop == <<running, mode, retry_count, backoff_time, wait_time, prev,
          connections, other, probe>>

NoFx == [fetch |-> 0, send |-> 0, write |-> 0, notify |-> 0, chunks |-> 0]

Bump(n) == IF n < MaxCount THEN n + 1 ELSE n

(***************************************************************************)
(* database.py                                                             *)
(***************************************************************************)
\* INSERT INTO payments (...) VALUES (..., 'pending'); a duplicate primary
\* key raises and inserts nothing
add_pending_payment(pay, p, t) ==
    IF p \in DOMAIN pay
    THEN pay
    ELSE [q \in DOMAIN pay \cup {p} |->
            IF q = p
            THEN [status |-> "pending", content_id |-> NULL,
                  request_timestamp |-> t]
            ELSE pay[q]]

\* mutant of the status update: the column list of the UPDATE holds
\* content_id too
update_payment_status_ResetsContent(pay, p, s) ==
    IF p \in DOMAIN pay
    THEN [pay EXCEPT ![p].status = s, ![p].content_id = 1]
    ELSE pay

\* UPDATE payments SET status = %s ... WHERE payment_id = %s
update_payment_status(pay, p, s) ==
    IF p \in DOMAIN pay THEN [pay EXCEPT ![p].status = s] ELSE pay

\* mutant of the janitor: WHERE NOW() > expiry_timestamp
cleanup_expired_pending_payments_AnyStatus(pay, t) ==
    [p \in DOMAIN pay |->
        IF t > pay[p].request_timestamp + REQUEST_EXPIRY_HOURS
        THEN [pay[p] EXCEPT !.status = "expired"]
        ELSE pay[p]]

\* UPDATE payments SET status = 'expired'
\* WHERE status = 'pending' AND NOW() > expiry_timestamp
cleanup_expired_pending_payments(pay, t) ==
    [p \in DOMAIN pay |->
        IF /\ pay[p].status = "pending"
           /\ t > pay[p].request_timestamp + REQUEST_EXPIRY_HOURS
        THEN [pay[p] EXCEPT !.status = "expired"]
        ELSE pay[p]]

\* UPDATE payments SET content_id = %s, status = 'delivered'
\* WHERE payment_id = %s
link_content_to_payment(pay, p, c) ==
    IF p \in DOMAIN pay
    THEN [pay EXCEPT ![p].content_id = c, ![p].status = "delivered"]
    ELSE pay

\* FOREIGN KEY (content_id) REFERENCES content_library(content_id): the
\* UPDATE of link_content_to_payment raises when the row is gone
fk_content_ok(lib, c) == c \in DOMAIN lib

\* ... ON DELETE SET NULL: deleting a content_library row nulls the
\* content_id of every payment that references it, and nothing else
fk_content_on_delete(pay, c) ==
    [p \in DOMAIN pay |->
        IF pay[p].content_id = c
        THEN [pay[p] EXCEPT !.content_id = NULL]
        ELSE pay[p]]

\* SELECT ... FROM payments WHERE payment_id = %s
\* (the rows fetched: none or one)
get_payment_details(pay, p) == IF p \in DOMAIN pay THEN {pay[p]} ELSE {}

\* mutant of the lookup: the row is taken for granted
get_content_from_cms_library_Unchecked(lib, c) == c

\* SELECT ... FROM content_library WHERE content_id = %s
get_content_from_cms_library(lib, c) == IF c \in DOMAIN lib THEN c ELSE NULL

\* mutant of the WHERE clause: the status is not tested
PendingWhere_NoStatus(row) == row.content_id = NULL

\* WHERE status = 'completed' AND content_id IS NULL
PendingWhere(row) == row.status = "completed" /\ row.content_id = NULL

\* mutant of the ORDER BY clause: no order at all
IsAscending_Unordered(pay, s) == TRUE

\* ascending request_timestamp; rows with equal timestamps come in any order
IsAscending(pay, s) ==
    \A i \in 1..Len(s) : \A j \in 1..Len(s) :
        i < j => pay[s[i]].request_timestamp <= pay[s[j]].request_timestamp

SeqsOver(S) ==
    {s \in UNION {[1..n -> S] : n \in 0..Cardinality(S)} :
        /\ Len(s) = Cardinality(S)
        /\ \A i \in 1..Len(s) : \A j \in 1..Len(s) : i # j => s[i] # s[j]}

\* SELECT ... FROM payments WHERE status = 'completed' AND content_id IS NULL
\* ORDER BY request_timestamp ASC: the possible result lists
get_pending_payments_for_admin(pay) ==
    {s \in SeqsOver({p \in DOMAIN pay : PendingWhere(pay[p])}) :
        IsAscending(pay, s)}

(***************************************************************************)
(* content_manager.py / delivery_automater.py: choosing the content        *)
(***************************************************************************)
\* content_name VARCHAR(255) NOT NULL UNIQUE: the comparison of the index is
\* that of the strings themselves
content_name_unique(lib, name) ==
    \A d \in DOMAIN lib : lib[d].content_name # name

\* INSERT INTO content_library (content_id, content_name, file_type,
\* google_drive_file_id); uploaded_at DEFAULT NOW()
add_content_to_cms_library(lib, c, name, ref, kind, t) ==
    [d \in DOMAIN lib \cup {c} |->
        IF d = c
        THEN [content_name |-> name, google_drive_file_id |-> ref,
              file_type |-> kind, uploaded_at |-> t]
        ELSE lib[d]]

\* the dictionary built from a row of content_library by the two lookups
content_dict(lib, c) ==
    [content_id |-> c, content_name |-> lib[c].content_name,
     file_type |-> lib[c].file_type,
     google_drive_file_id |-> lib[c].google_drive_file_id]

\* get_content_by_name: WHERE LOWER(content_name) = LOWER(%s), fetchone();
\* the results the query can give, None when no row matches
get_content_by_name(lib, name) ==
    LET rows == {c \in DOMAIN lib :
                    lower(lib[c].content_name) = lower(name)}
    IN  IF rows = {} THEN {NULL} ELSE {content_dict(lib, c) : c \in rows}

\* mutant of the listing: ORDER BY uploaded_at ASC
FirstListed_Oldest(lib) ==
    {c \in DOMAIN lib :
        \A d \in DOMAIN lib : lib[c].uploaded_at <= lib[d].uploaded_at}

\* SELECT ... FROM content_library ORDER BY uploaded_at DESC LIMIT 1000:
\* the rows that can come first in the listing
FirstListed(lib) ==
    {c \in DOMAIN lib :
        \A d \in DOMAIN lib : lib[d].uploaded_at <= lib[c].uploaded_at}


\* ORDER BY uploaded_at DESC
IsDescending(lib, s) ==
    \A i, j \in DOMAIN s :
        i < j => lib[s[j]].uploaded_at <= lib[s[i]].uploaded_at

\* list_contents(limit=1000) when its query answers: the possible orders of
\* the rows (fewer than 1000 rows; rows of equal uploaded_at in any order)
list_contents(lib) ==
    {s \in SeqsOver(DOMAIN lib) : IsDescending(lib, s)}

\* str.split(): the maximal runs of characters that are not whitespace
RECURSIVE split_from(_, _, _)
split_from(str, i, word) ==
    LET done == IF word = <<>> THEN <<>> ELSE <<word>> IN
    IF i > Len(str) THEN done
    ELSE IF str[i] = " " THEN done \o split_from(str, i + 1, <<>>)
    ELSE split_from(str, i + 1, Append(word, str[i]))

split(str) == split_from(str, 1, <<>>)

\* `word in name` of two strings
contains(name, word) ==
    \E i \in 0..(Len(name) - Len(word)) :
        SubSeq(name, i + 1, i + Len(word)) = word

\* mutant of the score: a hint without words matches nothing
score_NoWords(user_input, name) ==
    LET user_input_lower == lower(user_input)
        content_name_lower == lower(name)
        words == split(user_input_lower)
        matching_words ==
            Cardinality({i \in DOMAIN words :
                            contains(content_name_lower, words[i])})
    IN  IF user_input_lower = content_name_lower THEN 100
        ELSE IF words = <<>> THEN 0
        ELSE IF matching_words = Len(words) THEN 80
        ELSE (matching_words * 60) \div Len(words)

\* mutant of the score: the strings are compared as they are written
score_CaseSensitive(user_input, name) ==
    LET words == split(user_input)
        matching_words ==
            Cardinality({i \in DOMAIN words : contains(name, words[i])})
    IN  IF user_input = name THEN 100
        ELSE IF matching_words = Len(words) THEN 80
        ELSE (matching_words * 60) \div Len(words)

\* lines 190-209 of find_best_content_match: the score of one item. The
\* quotient (matching_words / len(words)) * 60 is a whole number for every
\* hint of fewer than seven words.
score(user_input, name) ==
    LET user_input_lower == lower(user_input)
        content_name_lower == lower(name)
        words == split(user_input_lower)
        matching_words ==
            Cardinality({i \in DOMAIN words :
                            contains(content_name_lower, words[i])})
    IN  IF user_input_lower = content_name_lower THEN 100
        ELSE IF matching_words = Len(words) THEN 80
        ELSE (matching_words * 60) \div Len(words)

\* mutant of the acceptance test: any best match is returned
accepted_Always(best_score) == TRUE

\* `best_score >= 40`
accepted(best_score) == best_score >= 40

\* mutant of the loop: an item that scores as much as the best so far
\* replaces it
RECURSIVE best_from_LastSeen(_, _, _, _, _)
best_from_LastSeen(lib, all_contents, user_input, i, best) ==
    IF i > Len(all_contents) THEN best
    ELSE LET c == all_contents[i]
             sc == score(user_input, lib[c].content_name)
         IN  best_from_LastSeen(lib, all_contents, user_input, i + 1,
                                IF sc >= best[2] THEN <<c, sc>> ELSE best)

\* lines 185-212: the loop over all_contents; best is <<best_match,
\* best_score>>
RECURSIVE best_from(_, _, _, _, _)
best_from(lib, all_contents, user_input, i, best) ==
    IF i > Len(all_contents) THEN best
    ELSE LET c == all_contents[i]
             sc == score(user_input, lib[c].content_name)
         IN  best_from(lib, all_contents, user_input, i + 1,
                       IF sc > best[2] THEN <<c, sc>> ELSE best)

\* find_best_content_match(user_input) on the listing all_contents
find_best_content_match(lib, all_contents, user_input) ==
    LET best == best_from(lib, all_contents, user_input, 1, <<NULL, 0>>) IN
    IF all_contents = <<>> THEN NULL
    ELSE IF best[1] # NULL /\ accepted(best[2]) THEN best[1]
    ELSE NULL

\* --strategy choices of `process`
Strategies == {"keyword", "recent", "popular", "roundrobin"}

\* mutant: the keyword strategy needs a hint, and a payment carries none
determine_content_to_deliver_Keyword(lib, listed, strategy) ==
    IF listed /\ DOMAIN lib # {} /\ strategy # "keyword"
    THEN FirstListed(lib)
    ELSE {NULL}

\* mutant: the popular strategy has an implementation of its own
determine_content_to_deliver_Popular(lib, listed, strategy) ==
    IF listed /\ DOMAIN lib # {}
    THEN IF strategy = "popular" THEN FirstListed_Oldest(lib)
         ELSE FirstListed(lib)
    ELSE {NULL}

\* _determine_content_to_deliver(user_id, payment_id, strategy): contents[0]
\* of list_contents(limit=1000), None when the listing is empty or
\* list_contents caught an exception; strategy is never read
determine_content_to_deliver(lib, listed, strategy) ==
    IF listed /\ DOMAIN lib # {} THEN FirstListed(lib) ELSE {NULL}

(***************************************************************************)
(* Initial state: empty tables, the worker at the top of its loop.         *)
(***************************************************************************)
Modes == {"fixed", "exponential"}

\* no call of the matcher on its own
NoProbe == [fn |-> "none", listed |-> FALSE, result |-> NULL]

\* the second process at the top of its loop
OtherIdle ==
    [pc |-> "idle", pending_deliveries |-> <<>>, payment_id |-> NULL,
     content_id |-> NULL, ret |-> "none", why |-> "none"]

\* the state when the run function chosen by main() enters its loop
InitMode(m) ==
    /\ now = 0
    /\ payments = [p \in {} |-> NULL]
    /\ content_library = [c \in {} |-> NULL]
    /\ used_content_ids = {}
    /\ pc = "idle"
    /\ caller = "none"
    /\ pending_deliveries = <<>>
    /\ payment_id = NULL
    /\ content_id = NULL
    /\ payment = {}
    /\ content = NULL
    /\ success_count = 0
    /\ error_count = 0
    /\ ret = "none"
    /\ why = "none"
    /\ fx = NoFx
    /\ sent = [p \in PaymentIds |-> 0]
    /\ linked = [p \in PaymentIds |-> 0]
    /\ running = TRUE
    /\ mode = m
    /\ retry_count = 0
    /\ backoff_time = 0
    /\ wait_time = 0
    /\ prev = "none"
    /\ connections = "open"
    /\ other = OtherIdle
    /\ probe = NoProbe

\* run_continuous, the default of main()
Init == InitMode("fixed")

\* either run function: main() with or without --backoff
InitLoop == \E m \in Modes : InitMode(m)

(***************************************************************************)
(* The other clients of the database.                                      *)
(***************************************************************************)
Tick ==
    /\ now < MaxTime
    /\ now' = now + 1
    /\ UNCHANGED <<payments, content_library, used_content_ids, worker>>

\* a purchase request: add_pending_payment with a new payment_id
AddPendingPayment ==
    \E p \in PaymentIds \ DOMAIN payments :
        /\ payments' = add_pending_payment(payments, p, now)
        /\ UNCHANGED <<now, content_library, used_content_ids, worker>>

\* the payment provider's callback: update_payment_status(p, 'completed')
\* for a payment that is waiting for it
PaymentCompleted ==
    \E p \in DOMAIN payments :
        /\ payments[p].status = "pending"
        /\ payments' = update_payment_status(payments, p, "completed")
        /\ UNCHANGED <<now, content_library, used_content_ids, worker>>

\* the expiry janitor
CleanupExpired ==
    /\ payments' = cleanup_expired_pending_payments(payments, now)
    /\ payments' # payments
    /\ UNCHANGED <<now, content_library, used_content_ids, worker>>

\* ContentManager.add_content(content_name, google_drive_file_id, file_type)
\* with a fresh uuid4 out of ids and arguments out of names, refs, kinds.
\* When the INSERT raises, add_content returns None and nothing changes.
AddContentOf(ids, names, refs, kinds) ==
    \E c \in ids \ used_content_ids, name \in names, ref \in refs,
       kind \in kinds :
        /\ content_name_unique(content_library, name)
        /\ content_library' =
              add_content_to_cms_library(content_library, c, name, ref,
                                         kind, now)
        /\ used_content_ids' = used_content_ids \cup {c}
        /\ UNCHANGED <<now, payments, worker>>

\* the scheduler never reads a name, a file id or a file type
AddContent ==
    AddContentOf(ContentIds, {<<"a">>}, {"drive1"}, {"document"})

\* a row of content_library is deleted; fk_content reacts
DeleteContent ==
    \E c \in DOMAIN content_library :
        /\ content_library' =
              [d \in DOMAIN content_library \ {c} |-> content_library[d]]
        /\ payments' = fk_content_on_delete(payments, c)
        /\ UNCHANGED <<now, used_content_ids, worker>>


(***************************************************************************)
(* DeliveryAutomator.process_delivery, one action per await.               *)
(***************************************************************************)
Return(r, w) ==
    /\ pc' = "pd_ret"
    /\ ret' = r
    /\ why' = w

\* entry of process_delivery(payment_id, content_id=c)
Call(p, c) ==
    /\ pc' = "pd_get_payment"
    /\ payment_id' = p
    /\ content_id' = c
    /\ payment' = {}
    /\ content' = NULL
    /\ fx' = NoFx
    /\ ret' = "none"
    /\ why' = "none"

\* mutants of the status test: a delivered payment passes / no test at all
StatusAccepted_OrDelivered(row) == row.status \in {"completed", "delivered"}

StatusAccepted_Always(row) == TRUE

StatusAccepted_OnlyPending(row) == row.status = "pending"

\* if payment['status'] != 'completed': return False
StatusAccepted(row) == row.status = "completed"

\* lines 71-78: read the payment, reject a missing or not completed one
PD_GetPayment ==
    /\ pc = "pd_get_payment"
    /\ \E ok \in BOOLEAN :
          LET rows == get_payment_details(payments, payment_id) IN
          IF ~ok THEN Return("False", "exception") /\ UNCHANGED payment
          ELSE /\ payment' = rows
               /\ IF rows = {} THEN Return("False", "payment_not_found")
                  ELSE IF \E row \in rows : ~StatusAccepted(row)
                       THEN Return("False", "not_completed")
                  ELSE pc' = "pd_get_user" /\ UNCHANGED <<ret, why>>
    /\ UNCHANGED <<ledger, caller, pending_deliveries, payment_id, content_id,
                   content, success_count, error_count, fx, sent, linked,
                   loop>>

\* line 81: get_user_info, used for the log line only
PD_GetUser ==
    /\ pc = "pd_get_user"
    /\ \E ok \in BOOLEAN :
          IF ok THEN pc' = "pd_get_content" /\ UNCHANGED <<ret, why>>
          ELSE Return("False", "exception")
    /\ UNCHANGED <<ledger, caller, pending_deliveries, payment_id, content_id,
                   payment, content, success_count, error_count, fx, sent, linked,
                   loop>>

\* lines 89-107: look the content up by id (no content_name is passed)
PD_GetContent ==
    /\ pc = "pd_get_content"
    /\ IF content_id = NULL
       THEN Return("False", "no_content_argument") /\ UNCHANGED content
       ELSE \E ok \in BOOLEAN :
              LET row == get_content_from_cms_library(content_library, content_id) IN
              IF ~ok THEN Return("False", "exception") /\ UNCHANGED content
              ELSE IF row = NULL
                   THEN Return("False", "content_not_found") /\ UNCHANGED content
              ELSE /\ pc' = "pd_fetch"
                   /\ content' = row
                   /\ UNCHANGED <<ret, why>>
    /\ UNCHANGED <<ledger, caller, pending_deliveries, payment_id, content_id,
                   payment, success_count, error_count, fx, sent, linked,
                   loop>>

\* mutant of the fetch step: the exception is logged and not re-raised, so
\* process_delivery goes on to its write-back
PD_Fetch_Swallowed ==
    /\ pc = "pd_fetch"
    /\ \E ok \in BOOLEAN :
          IF ok
          THEN pc' = "pd_send" /\ fx' = [fx EXCEPT !.fetch = 1]
          ELSE pc' = "pd_link" /\ UNCHANGED fx
    /\ UNCHANGED <<ledger, caller, pending_deliveries, payment_id, content_id,
                   payment, content, success_count, error_count, ret, why,
                   sent, linked,
                   loop>>

\* mutant of the fetch step: the file is streamed, the send to the user
\* starts with the first chunk downloaded
PD_Fetch_Streamed ==
    /\ pc = "pd_fetch"
    /\ \E outcome \in {"raised", "more", "done"} :
          IF outcome = "raised"
          THEN Return("False", "fetch_failed") /\ UNCHANGED <<fx, sent>>
          ELSE /\ outcome = "more" => fx.chunks + 1 < NumChunks
               /\ pc' = IF outcome = "done" THEN "pd_link" ELSE pc
               /\ fx' = [fx EXCEPT !.chunks = @ + 1, !.send = 1,
                                   !.fetch = IF outcome = "done" THEN 1 ELSE @]
               /\ sent' = IF fx.send = 0
                          THEN [sent EXCEPT ![payment_id] = Bump(@)]
                          ELSE sent
               /\ UNCHANGED <<ret, why>>
    /\ UNCHANGED <<ledger, caller, pending_deliveries, payment_id, content_id,
                   payment, content, success_count, error_count, linked,
                   loop>>

\* _send_content_to_user, lines 238-252: metadata, then the download from
\* Drive, one step per next_chunk(); the file has at most NumChunks chunks,
\* and `done` ends the loop
PD_Fetch ==
    /\ pc = "pd_fetch"
    /\ \E outcome \in {"raised", "more", "done"} :
          IF outcome = "raised"
          THEN Return("False", "fetch_failed") /\ UNCHANGED fx
          ELSE /\ outcome = "more" => fx.chunks + 1 < NumChunks
               /\ pc' = IF outcome = "done" THEN "pd_send" ELSE pc
               /\ fx' = [fx EXCEPT !.chunks = @ + 1,
                                   !.fetch = IF outcome = "done" THEN 1 ELSE @]
               /\ UNCHANGED <<ret, why>>
    /\ UNCHANGED <<ledger, caller, pending_deliveries, payment_id, content_id,
                   payment, content, success_count, error_count, sent, linked,
                   loop>>

\* mutant of the send step: the exception is logged and not re-raised
PD_Send_Swallowed ==
    /\ pc = "pd_send"
    /\ pc' = "pd_link"
    /\ \E ok \in BOOLEAN :
          IF ok
          THEN /\ fx' = [fx EXCEPT !.send = 1]
               /\ sent' = [sent EXCEPT ![payment_id] = Bump(@)]
          ELSE UNCHANGED <<fx, sent>>
    /\ UNCHANGED <<ledger, caller, pending_deliveries, payment_id, content_id,
                   payment, content, success_count, error_count, ret, why,
                   linked,
                   loop>>

\* mutant of the send: deliveries are tasks of their own, and the batch
\* goes on to its next item as soon as the file of this one is sent
PD_Send_Overlapped ==
    /\ pc = "pd_send"
    /\ \E ok \in BOOLEAN :
          IF ok
          THEN /\ fx' = [fx EXCEPT !.send = 1]
               /\ sent' = [sent EXCEPT ![payment_id] = Bump(@)]
               /\ IF caller = "batch" /\ Len(pending_deliveries) > 1
                  THEN /\ pc' = "determine"
                       /\ pending_deliveries' = Tail(pending_deliveries)
                  ELSE /\ pc' = "pd_link"
                       /\ UNCHANGED pending_deliveries
               /\ UNCHANGED <<ret, why>>
          ELSE /\ Return("False", "send_failed")
               /\ UNCHANGED <<fx, sent, pending_deliveries>>
    /\ UNCHANGED <<ledger, caller, payment_id, content_id,
                   payment, content, success_count, error_count, linked,
                   loop>>

\* _send_content_to_user, lines 254-278: send_video / send_document; an
\* exception is re-raised and ends process_delivery
PD_Send ==
    /\ pc = "pd_send"
    /\ \E ok \in BOOLEAN :
          IF ok
          THEN /\ pc' = "pd_link"
               /\ fx' = [fx EXCEPT !.send = 1]
               /\ sent' = [sent EXCEPT ![payment_id] = Bump(@)]
               /\ UNCHANGED <<ret, why>>
          ELSE Return("False", "send_failed") /\ UNCHANGED <<fx, sent>>
    /\ UNCHANGED <<ledger, caller, pending_deliveries, payment_id, content_id,
                   payment, content, success_count, error_count, linked,
                   loop>>

\* mutant of the write-back: its exception is caught like the notification's
PD_Link_Swallowed ==
    /\ pc = "pd_link"
    /\ pc' = "pd_notify"
    /\ \E ok \in BOOLEAN :
          IF ok /\ fk_content_ok(content_library, content)
          THEN /\ payments' = link_content_to_payment(payments, payment_id, content)
               /\ fx' = [fx EXCEPT !.write = 1]
               /\ linked' = [linked EXCEPT ![payment_id] = Bump(@)]
          ELSE UNCHANGED <<payments, fx, linked>>
    /\ UNCHANGED <<now, content_library, used_content_ids, caller,
                   pending_deliveries, payment_id, content_id, payment,
                   content, success_count, error_count, ret, why, sent,
                   loop>>

\* line 118: the write-back
PD_Link ==
    /\ pc = "pd_link"
    /\ \E ok \in BOOLEAN :
          IF ok /\ fk_content_ok(content_library, content)
          THEN /\ payments' = link_content_to_payment(payments, payment_id, content)
               /\ pc' = "pd_notify"
               /\ fx' = [fx EXCEPT !.write = 1]
               /\ linked' = [linked EXCEPT ![payment_id] = Bump(@)]
               /\ UNCHANGED <<ret, why>>
          ELSE /\ Return("False", "link_failed")
               /\ UNCHANGED <<payments, fx, linked>>
    /\ UNCHANGED <<now, content_library, used_content_ids, caller,
                   pending_deliveries, payment_id, content_id, payment,
                   content, success_count, error_count, sent,
                   loop>>

\* mutant of the notification: no try block of its own, so its exception
\* reaches the handler of process_delivery
PD_Notify_Propagates ==
    /\ pc = "pd_notify"
    /\ \E ok \in BOOLEAN :
          IF ok
          THEN Return("True", "delivered") /\ fx' = [fx EXCEPT !.notify = 1]
          ELSE Return("False", "exception") /\ UNCHANGED fx
    /\ UNCHANGED <<ledger, caller, pending_deliveries, payment_id, content_id,
                   payment, content, success_count, error_count, sent, linked,
                   loop>>

\* lines 122-131: the admin notification in its own try block
PD_Notify ==
    /\ pc = "pd_notify"
    /\ \E ok \in BOOLEAN :
          IF ok
          THEN Return("True", "delivered") /\ fx' = [fx EXCEPT !.notify = 1]
          ELSE Return("True", "notification_failed") /\ UNCHANGED fx
    /\ UNCHANGED <<ledger, caller, pending_deliveries, payment_id, content_id,
                   payment, content, success_count, error_count, sent, linked,
                   loop>>


(***************************************************************************)
(* The callers of process_delivery.                                        *)
(***************************************************************************)
\* the batch moves on to the next row, or ends (return success, errors)
\* mutant: a batch whose last item failed is followed by a backoff wait
NextItem_Escalates(rest) ==
    /\ pending_deliveries' = rest
    /\ pc' = IF rest = <<>> THEN "sleeping" ELSE "determine"
    /\ wait_time' = IF rest # <<>> THEN wait_time
                    ELSE IF ret = "False"
                         THEN Min(backoff_unit * 2, max_retry_interval)
                    ELSE check_interval

\* after the return the run function calls asyncio.sleep(check_interval)
NextItem(rest) ==
    /\ pending_deliveries' = rest
    /\ pc' = IF rest = <<>> THEN "sleeping" ELSE "determine"
    /\ wait_time' = IF rest = <<>> THEN check_interval ELSE wait_time

\* Checking: check_and_process_deliveries, lines 48-62, through
\* get_pending_deliveries, which turns an exception into []
\* The loop is entered while self.running holds; the exponential loop sets
\* retry_count = 0 at the top of every iteration (line 174).
Checking ==
    /\ pc = "idle"
    /\ running
    /\ retry_count' = IF mode = "exponential" THEN 0 ELSE retry_count
    /\ \E ok \in BOOLEAN : \E rows \in get_pending_payments_for_admin(payments) :
          NextItem(IF ok THEN rows ELSE <<>>)
    /\ caller' = "batch"
    /\ success_count' = 0
    /\ error_count' = 0
    /\ UNCHANGED <<ledger, payment_id, content_id, payment, content, ret,
                   why, fx, sent, linked, running, mode, backoff_time, prev,
                   connections, other, probe>>

\* lines 64-79 and 89-92: choose the content for the first row left, then
\* call process_delivery, or count an error when nothing can be chosen
Determine ==
    /\ pc = "determine"
    /\ \E listed \in BOOLEAN :
       \E c \in determine_content_to_deliver(content_library, listed,
                                            "recent") :
          IF c = NULL
          THEN /\ error_count' = error_count + 1
               /\ NextItem(Tail(pending_deliveries))
               /\ UNCHANGED <<payment_id, content_id, payment, content, ret,
                               why, fx>>
          ELSE /\ Call(Head(pending_deliveries), c)
               /\ UNCHANGED <<pending_deliveries, error_count, wait_time>>
    /\ UNCHANGED <<ledger, caller, success_count, sent, linked, running, mode,
                   retry_count, backoff_time, prev, connections, other, probe>>

\* `deliver --payment P --content-id C` of delivery_automater.main
CliDeliver ==
    /\ pc = "idle"
    /\ \E p \in PaymentIds : \E c \in ContentIds \cup {NULL} : Call(p, c)
    /\ caller' = "cli"
    /\ UNCHANGED <<ledger, pending_deliveries, success_count, error_count,
                   sent, linked,
                   loop>>

\* mutant of the tally: a failed item ends the batch
ReturnToCaller_HaltsOnFailure ==
    /\ pc = "pd_ret"
    /\ IF caller = "batch"
       THEN /\ success_count' = IF ret = "True" THEN success_count + 1
                                ELSE success_count
            /\ error_count' = IF ret = "True" THEN error_count
                              ELSE error_count + 1
            /\ IF ret = "True"
               THEN NextItem(Tail(pending_deliveries))
               ELSE /\ pc' = "sleeping"
                    /\ wait_time' = check_interval
                    /\ UNCHANGED pending_deliveries
            /\ UNCHANGED caller
       ELSE /\ pc' = "idle"
            /\ caller' = "none"
            /\ UNCHANGED <<pending_deliveries, success_count, error_count,
                           wait_time>>
    /\ payment_id' = NULL
    /\ content_id' = NULL
    /\ payment' = {}
    /\ content' = NULL
    /\ ret' = "none"
    /\ why' = "none"
    /\ fx' = NoFx
    /\ UNCHANGED <<ledger, sent, linked, running, mode, retry_count,
                   backoff_time, prev, connections, other, probe>>

\* lines 81-88: the batch counts the outcome; the command line prints it
ReturnToCaller ==
    /\ pc = "pd_ret"
    /\ IF caller = "batch"
       THEN /\ success_count' = IF ret = "True" THEN success_count + 1
                                ELSE success_count
            /\ error_count' = IF ret = "True" THEN error_count
                              ELSE error_count + 1
            /\ NextItem(Tail(pending_deliveries))
            /\ UNCHANGED caller
       ELSE /\ pc' = "idle"
            /\ caller' = "none"
            /\ UNCHANGED <<pending_deliveries, success_count, error_count,
                           wait_time>>
    /\ payment_id' = NULL
    /\ content_id' = NULL
    /\ payment' = {}
    /\ content' = NULL
    /\ ret' = "none"
    /\ why' = "none"
    /\ fx' = NoFx
    /\ UNCHANGED <<ledger, sent, linked, running, mode, retry_count,
                   backoff_time, prev, connections, other, probe>>

\* asyncio.sleep(check_interval) returns: back to the loop condition; the
\* pair (success, errors) the batch returned is dropped
Sleep ==
    /\ pc = "sleeping"
    /\ pc' = "idle"
    /\ caller' = "none"
    /\ success_count' = 0
    /\ error_count' = 0
    /\ wait_time' = 0
    /\ prev' = "clean"
    /\ UNCHANGED <<ledger, pending_deliveries, payment_id, content_id,
                   payment, content, ret, why, fx, sent, linked, running,
                   mode, retry_count, backoff_time, connections, other, probe>>

(***************************************************************************)
(* The run functions around the batch: shutdown signal, loop-level errors, *)
(* loop exit and cleanup.                                                  *)
(***************************************************************************)
\* min(60 * (2 ** retry_count), max_retry_interval)
backoff(rc) == Min(backoff_unit * (2 ^ rc), max_retry_interval)

\* the batch locals are gone once check_and_process_deliveries has returned
DropBatchLocals ==
    /\ caller' = "none"
    /\ success_count' = 0
    /\ error_count' = 0

\* signal_handler: SIGINT or SIGTERM while the run function is running
Signal ==
    /\ pc \notin {"stopped", "crashed"}
    /\ running
    /\ running' = FALSE
    /\ UNCHANGED <<ledger, pc, caller, pending_deliveries, payment_id,
                   content_id, payment, content, success_count, error_count,
                   ret, why, fx, sent, linked, mode, retry_count,
                   backoff_time, wait_time, prev, connections, other, probe>>

\* run_continuous, lines 140-143: an exception raised in the try block of
\* the loop body is logged and followed by asyncio.sleep(60)
LoopErrorFixed ==
    /\ pc = "sleeping"
    /\ mode = "fixed"
    /\ pc' = "handler_sleep"
    /\ wait_time' = cooldown
    /\ prev' = "error"
    /\ DropBatchLocals
    /\ UNCHANGED <<ledger, pending_deliveries, payment_id, content_id,
                   payment, content, ret, why, fx, sent, linked, running,
                   mode, retry_count, backoff_time, connections, other, probe>>

\* run_with_exponential_backoff, lines 186-196: retry_count is incremented,
\* backoff_time computed, and line 193 evaluates random.random(): with the
\* name unbound this raises NameError inside the handler, which leaves the
\* run function (no cleanup) and ends asyncio.run in main()
LoopErrorExponential ==
    /\ pc = "sleeping"
    /\ mode = "exponential"
    /\ retry_count' = retry_count + 1
    /\ backoff_time' = backoff(retry_count')
    /\ IF random_imported
       THEN /\ pc' = "handler_sleep"
            /\ \E jitter \in {-(backoff_time' \div 10), 0, backoff_time' \div 10} :
                  wait_time' = backoff_time' + jitter
       ELSE /\ pc' = "crashed"
            /\ wait_time' = 0
    /\ prev' = "error"
    /\ DropBatchLocals
    /\ UNCHANGED <<ledger, pending_deliveries, payment_id, content_id,
                   payment, content, ret, why, fx, sent, linked, running,
                   mode, connections, other, probe>>

\* the sleep of the handler returns: back to the loop condition
HandlerSleep ==
    /\ pc = "handler_sleep"
    /\ pc' = "idle"
    /\ wait_time' = 0
    /\ UNCHANGED <<ledger, caller, pending_deliveries, payment_id, content_id,
                   payment, content, success_count, error_count, ret, why, fx,
                   sent, linked, running, mode, retry_count, backoff_time,
                   prev, connections, other, probe>>

\* `while self.running` is false: the loop is left
LoopExit ==
    /\ pc = "idle"
    /\ ~running
    /\ pc' = "cleanup"
    /\ UNCHANGED <<ledger, caller, pending_deliveries, payment_id, content_id,
                   payment, content, success_count, error_count, ret, why, fx,
                   sent, linked, loop>>

\* await self.automator.cleanup(): pool, Drive service, content manager
Cleanup ==
    /\ pc = "cleanup"
    /\ pc' = "stopped"
    /\ connections' = "closed"
    /\ UNCHANGED <<ledger, caller, pending_deliveries, payment_id, content_id,
                   payment, content, success_count, error_count, ret, why, fx,
                   sent, linked, running, mode, retry_count, backoff_time,
                   wait_time, prev, other, probe>>

Environment ==
    \/ Tick
    \/ AddPendingPayment
    \/ PaymentCompleted
    \/ CleanupExpired
    \/ AddContent
    \/ DeleteContent

Worker ==
    \/ Checking
    \/ Determine
    \/ CliDeliver
    \/ PD_GetPayment
    \/ PD_GetUser
    \/ PD_GetContent
    \/ PD_Fetch
    \/ PD_Send
    \/ PD_Link
    \/ PD_Notify
    \/ ReturnToCaller
    \/ Sleep

Next == Environment \/ Worker

Spec == Init /\ [][Next]_vars

(***************************************************************************)
(* The scheduler with its run function: either mode, with shutdown signals *)
(* and loop-level errors.                                                  *)
(***************************************************************************)
Scheduler ==
    \/ Checking
    \/ Determine
    \/ PD_GetPayment
    \/ PD_GetUser
    \/ PD_GetContent
    \/ PD_Fetch
    \/ PD_Send
    \/ PD_Link
    \/ PD_Notify
    \/ ReturnToCaller
    \/ Sleep

RunFunction ==
    \/ Signal
    \/ LoopErrorFixed
    \/ LoopErrorExponential
    \/ HandlerSleep
    \/ LoopExit
    \/ Cleanup

Arrivals ==
    \/ AddPendingPayment
    \/ PaymentCompleted
    \/ AddContent

NextLoop == Scheduler \/ RunFunction \/ Arrivals

SpecLoop == InitLoop /\ [][NextLoop]_vars

(***************************************************************************)
(* A second, independent scheduler process running the same code against   *)
(* the same database.  Its steps that touch the shared tables are separate *)
(* steps; get_user_info goes with the content lookup, the download with    *)
(* the send, and the notification with the return.                         *)
(***************************************************************************)
FirstProcess ==
    <<pc, caller, pending_deliveries, payment_id, content_id, payment,
      content, success_count, error_count, ret, why, fx, running, mode,
      retry_count, backoff_time, wait_time, prev, connections, probe>>

\* its for loop moves on; after the last row it sleeps and comes back
O_NextItem(rest) ==
    other' = [OtherIdle EXCEPT
                 !.pc = IF rest = <<>> THEN "idle" ELSE "determine",
                 !.pending_deliveries = rest]

O_Return(r, w) == other' = [other EXCEPT !.pc = "pd_ret", !.ret = r, !.why = w]

\* check_and_process_deliveries, lines 48-62, with rows to work on
O_Checking ==
    /\ other.pc = "idle"
    /\ \E rows \in get_pending_payments_for_admin(payments) :
          /\ rows # <<>>
          /\ O_NextItem(rows)
    /\ UNCHANGED <<ledger, FirstProcess, sent, linked>>

\* lines 64-79 and 89-92
O_Determine ==
    /\ other.pc = "determine"
    /\ \E listed \in BOOLEAN :
       \E c \in determine_content_to_deliver(content_library, listed,
                                            "recent") :
          IF c = NULL
          THEN O_NextItem(Tail(other.pending_deliveries))
          ELSE other' = [other EXCEPT
                            !.pc = "pd_get_payment",
                            !.payment_id = Head(other.pending_deliveries),
                            !.content_id = c]
    /\ UNCHANGED <<ledger, FirstProcess, sent, linked>>

\* mutant: an application-level lock, the payment is refused while the
\* other process is working on it
O_GetPayment_Locked ==
    /\ other.pc = "pd_get_payment"
    /\ \E ok \in BOOLEAN :
          LET rows == get_payment_details(payments, other.payment_id) IN
          IF ~ok THEN O_Return("False", "exception")
          ELSE IF rows = {} THEN O_Return("False", "payment_not_found")
          ELSE IF \E row \in rows : ~StatusAccepted(row)
               THEN O_Return("False", "not_completed")
          ELSE IF payment_id = other.payment_id
               THEN O_Return("False", "locked")
          ELSE other' = [other EXCEPT !.pc = "pd_get_content"]
    /\ UNCHANGED <<ledger, FirstProcess, sent, linked>>

\* process_delivery, lines 71-78
O_GetPayment ==
    /\ other.pc = "pd_get_payment"
    /\ \E ok \in BOOLEAN :
          LET rows == get_payment_details(payments, other.payment_id) IN
          IF ~ok THEN O_Return("False", "exception")
          ELSE IF rows = {} THEN O_Return("False", "payment_not_found")
          ELSE IF \E row \in rows : ~StatusAccepted(row)
               THEN O_Return("False", "not_completed")
          ELSE other' = [other EXCEPT !.pc = "pd_get_content"]
    /\ UNCHANGED <<ledger, FirstProcess, sent, linked>>

\* lines 81-94
O_GetContent ==
    /\ other.pc = "pd_get_content"
    /\ \E ok \in BOOLEAN :
          IF ~ok THEN O_Return("False", "exception")
          ELSE IF get_content_from_cms_library(content_library,
                                               other.content_id) = NULL
               THEN O_Return("False", "content_not_found")
          ELSE other' = [other EXCEPT !.pc = "pd_send"]
    /\ UNCHANGED <<ledger, FirstProcess, sent, linked>>

\* line 115: _send_content_to_user
O_Send ==
    /\ other.pc = "pd_send"
    /\ \E ok \in BOOLEAN :
          IF ok
          THEN /\ other' = [other EXCEPT !.pc = "pd_link"]
               /\ sent' = [sent EXCEPT ![other.payment_id] = Bump(@)]
          ELSE /\ O_Return("False", "send_failed")
               /\ UNCHANGED sent
    /\ UNCHANGED <<ledger, FirstProcess, linked>>

\* lines 118-131: the write-back, then the notification and return True
O_Link ==
    /\ other.pc = "pd_link"
    /\ \E ok \in BOOLEAN :
          IF ok /\ fk_content_ok(content_library, other.content_id)
          THEN /\ payments' = link_content_to_payment(payments,
                                   other.payment_id, other.content_id)
               /\ linked' = [linked EXCEPT ![other.payment_id] = Bump(@)]
               /\ O_Return("True", "delivered")
          ELSE /\ O_Return("False", "link_failed")
               /\ UNCHANGED <<payments, linked>>
    /\ UNCHANGED <<now, content_library, used_content_ids, FirstProcess, sent>>

\* Continous_delivery.py lines 81-88
O_ReturnToCaller ==
    /\ other.pc = "pd_ret"
    /\ O_NextItem(Tail(other.pending_deliveries))
    /\ UNCHANGED <<ledger, FirstProcess, sent, linked>>

OtherScheduler ==
    \/ O_Checking
    \/ O_Determine
    \/ O_GetPayment
    \/ O_GetContent
    \/ O_Send
    \/ O_Link
    \/ O_ReturnToCaller

NextTwo == Scheduler \/ OtherScheduler \/ Arrivals

SpecTwo == Init /\ [][NextTwo]_vars

(***************************************************************************)
(* The matcher on its own: _determine_content_to_deliver called on the     *)
(* catalogues that uploads and deletions over ItemIds produce.             *)
(***************************************************************************)
AddItem ==
    AddContentOf(ItemIds, {<<"a">>, <<"b">>}, {"drive1"}, {"document"})

\* _determine_content_to_deliver(user_id, payment_id, "recent")
Recent ==
    /\ \E listed \in BOOLEAN :
       \E c \in determine_content_to_deliver(content_library, listed,
                                            "recent") :
          probe' = [fn |-> "recent", listed |-> listed, result |-> c]
    /\ probe' # probe
    /\ UNCHANGED <<ledger, pc, caller, pending_deliveries, payment_id,
                   content_id, payment, content, success_count, error_count,
                   ret, why, fx, sent, linked, running, mode, retry_count,
                   backoff_time, wait_time, prev, connections, other>>

\* process_all_pending(matching_strategy) with another --strategy:
\* _determine_content_to_deliver(user_id, payment_id, matching_strategy)
Strategy ==
    /\ \E strategy \in Strategies \ {"recent"}, listed \in BOOLEAN :
       \E c \in determine_content_to_deliver(content_library, listed,
                                            strategy) :
          probe' = [fn |-> strategy, listed |-> listed, result |-> c]
    /\ probe' # probe
    /\ UNCHANGED <<ledger, pc, caller, pending_deliveries, payment_id,
                   content_id, payment, content, success_count, error_count,
                   ret, why, fx, sent, linked, running, mode, retry_count,
                   backoff_time, wait_time, prev, connections, other>>

NextMatcher == Tick \/ AddItem \/ DeleteContent \/ Recent \/ Strategy

SpecMatcher == Init /\ [][NextMatcher]_vars

(***************************************************************************)
(* The keyword matcher on its own: find_best_content_match called with     *)
(* the hints of Hints on the catalogues that uploads with the names of     *)
(* Names produce.  The catalogue is built first, then the call is made.    *)
(***************************************************************************)
Hints == Strings(MaxHint)

AddNamed ==
    /\ probe = NoProbe
    /\ AddContentOf(ItemIds, Names, {"drive1"}, {"document"})

\* find_best_content_match(user_input); list_contents returns [] when its
\* query raises
Keyword ==
    /\ probe = NoProbe
    /\ \E user_input \in Hints, listed \in BOOLEAN :
       \E all_contents \in (IF listed THEN list_contents(content_library)
                                     ELSE {<<>>}) :
          probe' = [fn |-> "keyword", listed |-> listed,
                    hint |-> user_input, all_contents |-> all_contents,
                    result |-> find_best_content_match(content_library,
                                                       all_contents,
                                                       user_input)]
    /\ probe' # probe
    /\ UNCHANGED <<ledger, pc, caller, pending_deliveries, payment_id,
                   content_id, payment, content, success_count, error_count,
                   ret, why, fx, sent, linked, running, mode, retry_count,
                   backoff_time, wait_time, prev, connections, other>>

NextKeyword == AddNamed \/ Keyword

SpecKeyword == Init /\ [][NextKeyword]_vars

(***************************************************************************)
(* The catalogue on its own: add_content, and the two lookups of the item  *)
(* that the last add_content created.                                      *)
(***************************************************************************)
\* everything but the catalogue and the record of the call
NotCatalogue ==
    <<now, payments, pc, caller, pending_deliveries, payment_id, content_id,
      payment, content, success_count, error_count, ret, why, fx, sent,
      linked, running, mode, retry_count, backoff_time, wait_time, prev,
      connections, other>>

\* add_content(content_name, google_drive_file_id, file_type): the new
\* content_id, or None when the INSERT raised
AddEntry ==
    /\ \E c \in ItemIds \ used_content_ids, name \in Names,
          ref \in DriveIds, kind \in FileTypes :
          IF content_name_unique(content_library, name)
          THEN /\ content_library' =
                     add_content_to_cms_library(content_library, c, name,
                                                ref, kind, now)
               /\ used_content_ids' = used_content_ids \cup {c}
               /\ probe' = [fn |-> "add_content", content_name |-> name,
                            google_drive_file_id |-> ref, file_type |-> kind,
                            result |-> c]
          ELSE /\ probe' = [fn |-> "add_content", content_name |-> name,
                            google_drive_file_id |-> ref, file_type |-> kind,
                            result |-> NULL]
               /\ UNCHANGED <<content_library, used_content_ids>>
    /\ UNCHANGED NotCatalogue

\* the call returned a content_id
Created == probe.fn = "add_content" /\ probe.result # NULL

\* get_content_from_cms_library(content_id) of the item just created
GetById ==
    /\ Created
    /\ probe' =
          [fn |-> "get_content_from_cms_library", created |-> probe,
           result |->
              IF get_content_from_cms_library(content_library, probe.result)
                    = NULL
              THEN NULL
              ELSE content_dict(content_library, probe.result)]
    /\ UNCHANGED <<content_library, used_content_ids, NotCatalogue>>

\* get_content_by_name(content_name) with the name just created
GetByName ==
    /\ Created
    /\ \E row \in get_content_by_name(content_library, probe.content_name) :
          probe' = [fn |-> "get_content_by_name", created |-> probe,
                    result |-> row]
    /\ UNCHANGED <<content_library, used_content_ids, NotCatalogue>>

NextCatalogue == AddEntry \/ GetById \/ GetByName

SpecCatalogue == Init /\ [][NextCatalogue]_vars

(***************************************************************************)
(* The scheduler left running (no signal, no loop-level error, nothing     *)
(* deleted from the catalogue), under fairness: the loop keeps taking      *)
(* steps, and a step that can succeed again and again does succeed at some *)
(* point (the database answers, Drive delivers the file, Telegram accepts  *)
(* the message).                                                           *)
(***************************************************************************)
NextLive == Scheduler \/ Arrivals

ReadsSucceed ==
    /\ SF_vars(Checking /\ pending_deliveries' # <<>>)
    /\ SF_vars(Determine /\ pc' = "pd_get_payment")
    /\ SF_vars(PD_GetPayment /\ why' # "exception")
    /\ SF_vars(PD_GetUser /\ pc' = "pd_get_content")
    /\ SF_vars(PD_GetContent /\ why' # "exception")

DeliverySucceeds ==
    /\ SF_vars(PD_Fetch /\ pc' = "pd_send")
    /\ SF_vars(PD_Send /\ pc' = "pd_link")
    /\ SF_vars(PD_Link /\ pc' = "pd_notify")

SpecLive ==
    /\ Init
    /\ [][NextLive]_vars
    /\ WF_vars(Scheduler)
    /\ ReadsSucceed
    /\ DeliverySucceeds


(***************************************************************************)
(* The ledger on its own: any sequence of calls of the database methods,   *)
(* whoever makes them.  The worker stays at the top of its loop.           *)
(***************************************************************************)
\* the status the payment callback passes to update_payment_status
CallbackStatuses == {"completed"}

\* update_payment_status(p, s) on any existing row, whatever its status
UpdatePaymentStatus ==
    \E p \in DOMAIN payments : \E s \in CallbackStatuses :
        /\ payments' = update_payment_status(payments, p, s)
        /\ payments' # payments
        /\ UNCHANGED <<now, content_library, used_content_ids, worker>>

\* link_content_to_payment(p, c) on any row; fk_content rejects a content_id
\* that is not in content_library
LinkContentToPayment ==
    \E p \in DOMAIN payments : \E c \in ContentIds :
        /\ fk_content_ok(content_library, c)
        /\ payments' = link_content_to_payment(payments, p, c)
        /\ payments' # payments
        /\ UNCHANGED <<now, content_library, used_content_ids, worker>>

NextLedger ==
    \/ Tick
    \/ AddPendingPayment
    \/ UpdatePaymentStatus
    \/ CleanupExpired
    \/ LinkContentToPayment
    \/ AddContent
    \/ DeleteContent

SpecLedger == Init /\ [][NextLedger]_vars


(***************************************************************************)
(* Properties of the delivery executor.                                    *)
(***************************************************************************)
InCall ==
    pc \in {"pd_get_payment", "pd_get_user", "pd_get_content", "pd_fetch",
            "pd_send", "pd_link", "pd_notify", "pd_ret"}

\* the status of the row process_delivery read (its local `payment`)
ReadStatus(s) == \E row \in payment : row.status = s

\* C1: a delivered payment has had its content transmitted: its send
\* completed at least once, and within one call of process_delivery the
\* write-back is reached and done only after the send of that call completed.
C1_DeliveredImpliesTransmitted ==
    /\ \A p \in DOMAIN payments :
          payments[p].status = "delivered" => sent[p] >= 1
    /\ pc = "pd_link" => fx.send = 1
    /\ fx.write = 1 => fx.send = 1

C1_Witness ==
    /\ pc = "pd_notify"
    /\ payment_id \in DOMAIN payments
    /\ payments[payment_id].status = "delivered"
    /\ fx.send = 1 /\ fx.write = 1
    /\ sent[payment_id] = 1

\* C2: with one worker, the write-back of a payment is executed at most
\* once, a payment is delivered exactly when its write-back was executed,
\* and a call of process_delivery that reads a delivered payment is rejected
\* without writing to the ledger.
C2_DeliveredExactlyOnce ==
    /\ \A p \in PaymentIds : linked[p] <= 1
    /\ \A p \in DOMAIN payments :
          payments[p].status = "delivered" <=> linked[p] = 1
    /\ (InCall /\ ReadStatus("delivered")) =>
          /\ pc = "pd_ret"
          /\ ret = "False"
          /\ fx.write = 0

C2_Witness ==
    /\ pc = "pd_ret"
    /\ ReadStatus("delivered")
    /\ ret = "False"
    /\ linked[payment_id] = 1
    /\ payments[payment_id].status = "delivered"

\* C4: a call of process_delivery that reads a payment whose status is not
\* completed returns False at once, with no fetch, no send, no write-back
\* and no notification.
C4_NotCompletedRejected ==
    (InCall /\ \E row \in payment : row.status # "completed") =>
        /\ pc = "pd_ret"
        /\ ret = "False"
        /\ fx = NoFx

C4_Witness ==
    /\ pc = "pd_ret"
    /\ ReadStatus("expired")
    /\ ret = "False"
    /\ fx = NoFx


Range(s) == {s[i] : i \in DOMAIN s}

\* what a call of process_delivery that did nothing leaves behind
NoSideEffects ==
    /\ pc' = "pd_ret"
    /\ ret' = "False"
    /\ fx' = NoFx
    /\ payments' = payments
    /\ sent' = sent
    /\ linked' = linked

\* C3: in every row of the ledger content_id is non-null exactly when the
\* status is delivered, after any sequence of calls of the ledger methods
\* and changes of the catalogue.
C3_ContentIdIffDelivered ==
    \A p \in DOMAIN payments :
        payments[p].content_id # NULL <=> payments[p].status = "delivered"

\* C5: when process_delivery reads a payment_id that is not in the ledger,
\* or looks up a content_id that is not in the catalogue, that step ends the
\* call with False and nothing has been fetched, sent, written or notified;
\* nothing is done before these two reads either.
C5_MissingRejected ==
    /\ [](pc \in {"pd_get_payment", "pd_get_user", "pd_get_content"} => fx = NoFx)
    /\ [][(/\ pc = "pd_get_payment"
           /\ pc' # pc
           /\ payment_id \notin DOMAIN payments) => NoSideEffects]_vars
    /\ [][(/\ pc = "pd_get_content"
           /\ pc' # pc
           /\ content_id \notin DOMAIN content_library) => NoSideEffects]_vars

C5_Witness ==
    /\ pc = "pd_ret"
    /\ why = "content_not_found"
    /\ ReadStatus("completed")
    /\ content_id \in used_content_ids \ DOMAIN content_library
    /\ ret = "False"
    /\ fx = NoFx

\* C6: when process_delivery returns after its fetch or its send failed
\* (the content was found and no send completed), it returns False, did no
\* write-back and no notification, the payment is still completed with a
\* null content_id, and the batch counts the item in error_count only.
C6_FetchOrSendFailure ==
    /\ []((pc = "pd_ret" /\ content # NULL /\ fx.send = 0) =>
            /\ ret = "False"
            /\ fx.write = 0 /\ fx.notify = 0
            /\ payments[payment_id].status = "completed"
            /\ payments[payment_id].content_id = NULL)
    /\ [][(/\ pc = "pd_ret" /\ pc' # pc
           /\ caller = "batch"
           /\ content # NULL /\ fx.send = 0) =>
            /\ error_count' = error_count + 1
            /\ success_count' = success_count]_vars

C6_Witness ==
    /\ pc = "pd_ret"
    /\ caller = "batch"
    /\ content # NULL
    /\ fx.fetch = 1 /\ fx.send = 0
    /\ ret = "False"

\* C7: when process_delivery returns after the send completed and the
\* write-back failed, it returns False and the payment is still completed
\* with a null content_id; every later Checking pass that reads rows reads
\* that payment again, and no payment is written back more often than sent.
C7_WriteBackFailure ==
    /\ []((pc = "pd_ret" /\ fx.send = 1 /\ fx.write = 0) =>
            /\ ret = "False"
            /\ fx.notify = 0
            /\ payments[payment_id].status = "completed"
            /\ payments[payment_id].content_id = NULL)
    /\ [](\A p \in PaymentIds : linked[p] <= sent[p])
    /\ [][(pc = "idle" /\ pc' = "determine") =>
            \A p \in DOMAIN payments :
                (/\ sent[p] >= 1
                 /\ payments[p].status = "completed"
                 /\ payments[p].content_id = NULL)
                => p \in Range(pending_deliveries')]_vars

\* the retry of the batch has sent the content a second time
C7_Witness ==
    /\ pc = "pd_link"
    /\ caller = "batch"
    /\ sent[payment_id] = 2
    /\ linked[payment_id] = 0
    /\ payments[payment_id].status = "completed"

C9_DeliveredRefersToCatalog ==
    \A p \in DOMAIN payments :
        payments[p].status = "delivered" =>
            /\ payments[p].content_id # NULL
            /\ payments[p].content_id \in DOMAIN content_library

\* C10: the rows a Checking pass reads are exactly the payments that are
\* completed with a null content_id at the moment of the read: every result
\* of the query holds each of them once and nothing else, and the list the
\* batch starts with is such a result.
C10_PendingSetExact ==
    /\ [](\A rows \in get_pending_payments_for_admin(payments) :
            /\ Range(rows) = {p \in DOMAIN payments :
                                /\ payments[p].status = "completed"
                                /\ payments[p].content_id = NULL}
            /\ Len(rows) = Cardinality(Range(rows)))
    /\ [][(pc = "idle" /\ pc' = "determine") =>
            Range(pending_deliveries') =
                {p \in DOMAIN payments :
                    /\ payments[p].status = "completed"
                    /\ payments[p].content_id = NULL}]_vars

\* a read that took one payment and left a payment of another status out
C10_Witness ==
    /\ pc = "determine"
    /\ Len(pending_deliveries) = 1
    /\ \E q \in DOMAIN payments :
          /\ q \notin Range(pending_deliveries)
          /\ payments[q].status \in {"pending", "delivered", "expired"}

(***************************************************************************)
(* Properties of the batch.                                                *)
(***************************************************************************)
RequestedAt(p) == payments[p].request_timestamp

\* C11: within a batch the rows still to be handled are in ascending
\* request_timestamp order, the payment under attempt is the first of them,
\* and rows leave the list from the front only: a payment requested earlier
\* than another one of the batch has its attempt started first.
C11_OldestFirst ==
    /\ [](caller = "batch" =>
            /\ \A i \in 1..Len(pending_deliveries) :
               \A j \in 1..Len(pending_deliveries) :
                  i < j => RequestedAt(pending_deliveries[i])
                              <= RequestedAt(pending_deliveries[j])
            /\ InCall => payment_id = Head(pending_deliveries))
    /\ [][(caller = "batch" /\ pending_deliveries' # pending_deliveries) =>
            pending_deliveries' = Tail(pending_deliveries)]_vars

\* the attempt on the older of two payments of a batch has started
C11_Witness ==
    /\ caller = "batch"
    /\ pc = "pd_get_payment"
    /\ Len(pending_deliveries) = 2
    /\ RequestedAt(pending_deliveries[1]) < RequestedAt(pending_deliveries[2])

\* C12: every row read by Checking is handled once, whatever happened to
\* the rows before it: the batch ends only with no row left, a row leaves
\* the list only when its own attempt is over (process_delivery returned,
\* or no content could be chosen), every return of process_delivery moves
\* the batch on by one row whatever the value returned, and an attempt
\* starts only on the first row left.
C12_FailureDoesNotHaltBatch ==
    /\ [](pc = "sleeping" => pending_deliveries = <<>>)
    /\ []((caller = "batch" /\ InCall) =>
            /\ pending_deliveries # <<>>
            /\ payment_id = Head(pending_deliveries))
    /\ [][(caller = "batch" /\ pending_deliveries' # pending_deliveries) =>
            /\ pending_deliveries' = Tail(pending_deliveries)
            /\ pc \in {"pd_ret", "determine"}]_vars
    /\ [][(caller = "batch" /\ pc = "pd_ret" /\ pc' # pc) =>
            /\ pending_deliveries' = Tail(pending_deliveries)
            /\ pc' = IF pending_deliveries' = <<>> THEN "sleeping"
                      ELSE "determine"]_vars
    /\ [][(caller' = "batch" /\ pc' = "pd_get_payment" /\ pc # pc') =>
            /\ pc = "determine"
            /\ payment_id' = Head(pending_deliveries)
            /\ pending_deliveries' = pending_deliveries]_vars

\* the second row of a batch is under attempt after the first one failed
C12_Witness ==
    /\ caller = "batch"
    /\ pc = "pd_get_payment"
    /\ error_count = 1
    /\ success_count = 0
    /\ Len(pending_deliveries) = 1
    /\ \E q \in DOMAIN payments :
          /\ q # payment_id
          /\ PendingWhere(payments[q])

C14_NoMutualExclusion ==
    /\ [][(/\ other.pc = "pd_get_payment"
           /\ other' # other
           /\ other'.why # "exception"
           /\ other.payment_id \in DOMAIN payments
           /\ payments[other.payment_id].status = "completed")
          => other'.pc = "pd_get_content"]_vars
    /\ [][(/\ pc = "pd_get_payment"
           /\ pc' # pc
           /\ why' # "exception"
           /\ payment_id \in DOMAIN payments
           /\ payments[payment_id].status = "completed")
          => pc' = "pd_get_user"]_vars
    /\ [][(other.pc = "pd_link" /\ other'.ret = "True") =>
            /\ payments'[other.payment_id].status = "delivered"
            /\ linked'[other.payment_id] = Bump(linked[other.payment_id])]_vars

\* both processes have returned True for the same payment: its content was
\* sent twice and written back twice, and no step of either call failed
C14_Witness ==
    /\ pc = "pd_ret" /\ caller = "batch" /\ ret = "True" /\ why = "delivered"
    /\ other.pc = "pd_ret" /\ other.ret = "True"
    /\ other.payment_id = payment_id
    /\ sent[payment_id] = 2
    /\ linked[payment_id] = 2

(***************************************************************************)
(* Properties of the run functions.                                        *)
(***************************************************************************)
\* a step in which an exception raised in the loop body reaches the handler
LoopError == pc = "sleeping" /\ pc' \in {"handler_sleep", "crashed"}

\* C15: a loop-level error never ends the run function: the handler goes
\* into its wait, and the wait is followed by the loop condition.
C15_LoopErrorSurvived ==
    /\ [](pc # "crashed")
    /\ [][LoopError => pc' = "handler_sleep" /\ wait_time' > 0]_vars
    /\ [][(pc = "handler_sleep" /\ pc' # pc) => pc' = "idle"]_vars

\* the first base wait of the sequence: min(60 * 2^0, 3600)
base_wait == backoff(0)

\* C16: in exponential mode the base wait of an error that follows an
\* error is larger than the one before unless that was at the ceiling, and
\* the base wait of an error that follows a clean cycle is the base value.
C16_BackoffIncreasesAndResets ==
    /\ [][(LoopError /\ mode = "exponential" /\ prev = "error") =>
            \/ backoff_time' > backoff_time
            \/ backoff_time = max_retry_interval]_vars
    /\ [][(LoopError /\ mode = "exponential" /\ prev = "clean") =>
            backoff_time' = base_wait]_vars

\* C17: in exponential mode a batch that returns, whatever its items did,
\* leaves retry_count at 0 and is followed by asyncio.sleep(check_interval).
C17_ItemFailuresNotEscalated ==
    /\ []((mode = "exponential" /\ pc = "sleeping") =>
            /\ retry_count = 0
            /\ backoff_time = 0
            /\ wait_time = check_interval)
    /\ [][(mode = "exponential" /\ pc # "sleeping" /\ pc' = "sleeping") =>
            /\ caller' = "batch"
            /\ retry_count' = 0
            /\ wait_time' = check_interval]_vars

\* a batch in which every item failed is followed by the normal wait
C17_Witness ==
    /\ mode = "exponential"
    /\ pc = "sleeping"
    /\ caller = "batch"
    /\ error_count = 2
    /\ success_count = 0
    /\ wait_time = check_interval
    /\ retry_count = 0

\* C18: once running is false no new Checking pass starts, the loop is
\* left only from its loop condition (never from the middle of an item),
\* and when the run function has been left the connections are closed.
C18_GracefulShutdown ==
    /\ [][(~running /\ pc = "idle" /\ pc' # pc) => pc' = "cleanup"]_vars
    /\ [][(pc' = "cleanup" /\ pc # pc') => pc = "idle" /\ ~running]_vars
    /\ []((~running /\ pc \in {"stopped", "crashed"}) =>
            connections = "closed")

\* C19: when the handling of a batch item ends with running false, the
\* batch does not go on to the next row.
C19_ShutdownPolledBetweenItems ==
    [][(/\ ~running
        /\ caller = "batch"
        /\ pending_deliveries # <<>>
        /\ pending_deliveries' = Tail(pending_deliveries))
       => pc' # "determine"]_vars

(***************************************************************************)
(* Properties of the matcher.                                              *)
(***************************************************************************)
UploadedAt(c) == content_library[c].uploaded_at

\* what the claim asks of a result c on the present catalogue
IsMostRecent(c) ==
    IF DOMAIN content_library = {}
    THEN c = NULL
    ELSE /\ c \in DOMAIN content_library
         /\ \A d \in DOMAIN content_library : UploadedAt(d) <= UploadedAt(c)

C21_TieBrokenBySmallestId ==
    [][(probe' # probe /\ probe'.listed /\ probe'.result # NULL) =>
          \A d \in DOMAIN content_library :
              UploadedAt(d) = UploadedAt(probe'.result)
                  => probe'.result <= d]_vars

\* C24: on every catalogue the popular and the round-robin strategy have
\* the results of the recent strategy, and a call with one of them returns
\* an item the recent strategy returns on the same catalogue.
C24_DegradeToRecent ==
    /\ [](\A strategy \in {"popular", "roundrobin"}, listed \in BOOLEAN :
            determine_content_to_deliver(content_library, listed, strategy)
              = determine_content_to_deliver(content_library, listed,
                                             "recent"))
    /\ [][(probe' # probe /\ probe'.fn \in {"popular", "roundrobin"}) =>
            /\ probe'.result \in
                 determine_content_to_deliver(content_library, probe'.listed,
                                              "recent")
            /\ content_library' = content_library]_vars

\* the popular strategy has returned the later of two uploads
C24_Witness ==
    /\ probe.fn = "popular"
    /\ probe.result \in DOMAIN content_library
    /\ \E d \in DOMAIN content_library :
          UploadedAt(d) < UploadedAt(probe.result)

(***************************************************************************)
(* Properties of the keyword matcher.                                      *)
(***************************************************************************)
NameOf(c) == content_library[c].content_name

\* the same letter, whatever its case
SameLetter(x, y) == x = y \/ {x, y} = {"a", "A"}

EqualIgnoringCase(s, t) ==
    /\ Len(s) = Len(t)
    /\ \A i \in DOMAIN s : SameLetter(s[i], t[i])

\* the whitespace-delimited tokens of str, by their first and last position
Tokens(str) ==
    {t \in (DOMAIN str) \X (DOMAIN str) :
        /\ t[1] <= t[2]
        /\ \A k \in t[1]..t[2] : str[k] # " "
        /\ t[1] = 1 \/ str[t[1] - 1] = " "
        /\ t[2] = Len(str) \/ str[t[2] + 1] = " "}

\* the token t of hint is a substring of name, ignoring case
TokenInName(hint, t, name) ==
    \E k \in 0..(Len(name) - (t[2] - t[1] + 1)) :
        \A m \in 0..(t[2] - t[1]) : SameLetter(hint[t[1] + m], name[k + 1 + m])

MatchedTokens(hint, name) ==
    {t \in Tokens(hint) : TokenInName(hint, t, name)}

\* the score table of the claim for one hint and one name
ScoreAsStated(hint, name, sc) ==
    LET total == Cardinality(Tokens(hint))
        matched == Cardinality(MatchedTokens(hint, name))
    IN  /\ sc = 100 <=> EqualIgnoringCase(hint, name)
        /\ sc = 80 <=> (~EqualIgnoringCase(hint, name) /\ matched = total)
        /\ sc \notin {100, 80} => sc * total = matched * 60

\* C22: for the hint of a call of find_best_content_match and every name
\* of the catalogue, the score is 100 iff hint and name are equal ignoring
\* case, 80 iff they are not but every token of the hint is a substring of
\* the name ignoring case, and (matched tokens / total tokens) * 60
\* otherwise.
C22_ScoreTable ==
    probe.fn = "keyword" =>
        \A c \in DOMAIN content_library :
            ScoreAsStated(probe.hint, NameOf(c), score(probe.hint, NameOf(c)))

\* a call with a hint of two tokens on a catalogue with a name that holds
\* both tokens in the other case, and a name that holds one of them
C22_Witness ==
    /\ probe.fn = "keyword"
    /\ Cardinality(Tokens(probe.hint)) = 2
    /\ \E c, d \in DOMAIN content_library :
          /\ score(probe.hint, NameOf(c)) = 80
          /\ probe.hint[1] \notin Range(NameOf(c))
          /\ score(probe.hint, NameOf(d)) = 30

\* the score of item c for the hint of the call
ScoreOf(c) == score(probe.hint, NameOf(c))

C25_NamesUniqueIgnoringCase ==
    /\ [](\A c, d \in DOMAIN content_library :
            EqualIgnoringCase(NameOf(c), NameOf(d)) => c = d)
    /\ [][(probe' # probe /\ probe'.fn = "add_content"
            /\ \E d \in DOMAIN content_library :
                  EqualIgnoringCase(NameOf(d), probe'.content_name))
          => (probe'.result = NULL /\ content_library' = content_library)]_vars

\* C26: a lookup by the content_id that add_content returned, and a lookup
\* by the name that add_content was given, return the created item: that
\* content_id, and the name, file id and file type of the call.
C26_RoundTrip ==
    probe.fn \in {"get_content_from_cms_library", "get_content_by_name"} =>
        probe.result =
            [content_id |-> probe.created.result,
             content_name |-> probe.created.content_name,
             file_type |-> probe.created.file_type,
             google_drive_file_id |-> probe.created.google_drive_file_id]

\* the part of C26 that is about the lookup by content_id
RoundTripById ==
    probe.fn = "get_content_from_cms_library" =>
        probe.result =
            [content_id |-> probe.created.result,
             content_name |-> probe.created.content_name,
             file_type |-> probe.created.file_type,
             google_drive_file_id |-> probe.created.google_drive_file_id]

(***************************************************************************)
(* Properties of the value returned by process_delivery.                   *)
(***************************************************************************)
\* the failures the claim lists, by the message printed before the return
StatedFailures ==
    {"payment_not_found", "not_completed", "content_not_found",
     "fetch_failed", "send_failed", "link_failed"}

\* C27: two calls of process_delivery that failed for different reasons,
\* out of payment not found, payment not completed, content not found,
\* fetch failure, transmit failure and write-back failure, have returned
\* different values.
C27_FailuresDistinguishable ==
    (/\ pc = "pd_ret" /\ why \in StatedFailures
     /\ other.pc = "pd_ret" /\ other.why \in StatedFailures
     /\ why # other.why)
        => ret # other.ret

(***************************************************************************)
(* Properties of the backoff computation and of the scheduling cadence.    *)
(***************************************************************************)
\* C28: in exponential mode the base wait of an uncaught error is
\* min(60 * 2^retry_count, 3600) with retry_count as it was before the
\* increment for this error (60 after a clean cycle), and it never exceeds
\* 3600.
C28_BaseWaitFromOldCount ==
    [][(LoopError /\ mode = "exponential") =>
          /\ backoff_time' = backoff(retry_count)
          /\ retry_count = 0 => backoff_time' = 60
          /\ backoff_time' <= max_retry_interval]_vars

\* the part of C28 that is about the ceiling
BaseWaitBelowCeiling ==
    [][(LoopError /\ mode = "exponential") =>
          backoff_time' <= max_retry_interval]_vars

\* a batch pass whose read of the pending payments raised: the pass ends
\* at once although the table holds a payment waiting for delivery
FailedBatchPass ==
    /\ pc = "idle"
    /\ pc' = "sleeping"
    /\ \E p \in DOMAIN payments : PendingWhere(payments[p])

\* C29: after a batch pass in which the read of the pending payments
\* raised, the next wait is not the check interval: in exponential mode
\* retry_count is incremented and the wait is the backoff wait, in fixed
\* mode the wait is the cooldown.
C29_BatchErrorChangesCadence ==
    [][FailedBatchPass =>
          /\ wait_time' # check_interval
          /\ mode = "exponential" =>
                /\ retry_count' = retry_count + 1
                /\ backoff_time' = backoff(retry_count')
          /\ mode = "fixed" => wait_time' = cooldown]_vars

(***************************************************************************)
(* Properties of the order of deliveries within one scheduler.             *)
(***************************************************************************)
\* the delivery of payment p is between the start of its fetch and the end
\* of its write-back and notification
DeliveryInProgress(p) ==
    /\ payment_id = p
    /\ pc \in {"pd_fetch", "pd_send", "pd_link", "pd_notify"}

\* C30: at most one payment has a delivery in progress; a file is sent or a
\* write-back made only for that payment; a call of process_delivery starts
\* only from the loop of the batch, with no call active, for the first row
\* left; and the loop of the batch is reached only from the loop condition
\* or from the return of the previous call.
C30_StrictlySequential ==
    /\ [](Cardinality({p \in PaymentIds : DeliveryInProgress(p)}) <= 1)
    /\ [][\A p \in PaymentIds :
            (sent'[p] # sent[p] \/ linked'[p] # linked[p])
                => DeliveryInProgress(p)]_vars
    /\ [][(pc' = "pd_get_payment" /\ pc # "pd_get_payment") =>
            /\ pc = "determine"
            /\ payment_id = NULL
            /\ payment_id' = Head(pending_deliveries)]_vars
    /\ [][(pc' = "determine" /\ pc # "determine") =>
            pc \in {"idle", "pd_ret"}]_vars
    /\ [][(InCall /\ ~InCall') => pc = "pd_ret"]_vars

\* the second item of a batch is being delivered after the first one was
\* delivered and tallied
C30_Witness ==
    /\ caller = "batch"
    /\ success_count = 1
    /\ Len(pending_deliveries) = 1
    /\ DeliveryInProgress(Head(pending_deliveries))
    /\ \E q \in PaymentIds : q # payment_id /\ sent[q] = 1 /\ linked[q] = 1

(***************************************************************************)
(* Properties of the fetch and the transmit.                               *)
(***************************************************************************)
\* C31: within a call the send to the user is made only after the download
\* has seen `done`, and a call whose download raised at some chunk has
\* sent nothing to the user.
C31_FetchBeforeTransmit ==
    /\ [](fx.send = 1 => fx.fetch = 1)
    /\ []((pc = "pd_ret" /\ why = "fetch_failed") => fx.send = 0)
    /\ [][(sent' # sent) => (pc = "pd_send" /\ fx.fetch = 1)]_vars
    /\ [][(pc = "pd_fetch" /\ pc' = "pd_ret") => sent' = sent]_vars

\* the download raised after a chunk had been downloaded
C31_Witness ==
    /\ pc = "pd_ret"
    /\ why = "fetch_failed"
    /\ fx.chunks >= 1
    /\ fx.send = 0

(***************************************************************************)
(* Further properties of the keyword matcher.                              *)
(***************************************************************************)
\* the position of item c in the listing of the call
PositionOf(c) ==
    CHOOSE i \in DOMAIN probe.all_contents : probe.all_contents[i] = c

\* C32: the item a call of find_best_content_match returns comes before
\* every other item of the same score in the listing the call read.
C32_TiesFirstSeen ==
    (probe.fn = "keyword" /\ probe.result # NULL) =>
        \A d \in DOMAIN content_library :
            (d # probe.result /\ ScoreOf(d) = ScoreOf(probe.result))
                => PositionOf(probe.result) < PositionOf(d)

\* two items share the largest score, and the one listed first, which has
\* the larger content_id, has been returned
C32_Witness ==
    /\ probe.fn = "keyword"
    /\ probe.result # NULL
    /\ \E d \in DOMAIN content_library :
          /\ d < probe.result
          /\ ScoreOf(d) = ScoreOf(probe.result)
          /\ PositionOf(probe.result) < PositionOf(d)

(***************************************************************************)
(* Frame properties of the ledger.                                         *)
(***************************************************************************)
\* the values of payments.status
Statuses == {"pending", "completed", "delivered", "expired", "failed"}

\* the rows of pay have the content_id they have in the ledger
SameContentIds(pay) ==
    \A p \in DOMAIN payments :
        p \in DOMAIN pay /\ pay[p].content_id = payments[p].content_id

\* C33: a content_id is put into a payment only by the write-back of the
\* process_delivery call for that payment; add_pending_payment,
\* update_payment_status and cleanup_expired_pending_payments, called with
\* any arguments, and every step of the scheduler and of the matcher other
\* than the write-back, leave the content_id of every payment unchanged.
C33_OnlyWriteBackSetsContentId ==
    /\ [](/\ SameContentIds(cleanup_expired_pending_payments(payments, now))
          /\ \A q \in PaymentIds :
                /\ SameContentIds(add_pending_payment(payments, q, now))
                /\ \A st \in Statuses :
                      SameContentIds(update_payment_status(payments, q, st)))
    /\ [][\A p \in DOMAIN payments' :
            /\ p \notin DOMAIN payments => payments'[p].content_id = NULL
            /\ (/\ p \in DOMAIN payments
                /\ payments'[p].content_id # payments[p].content_id
                /\ payments'[p].content_id # NULL)
                  => /\ pc = "pd_link" /\ pc' = "pd_notify"
                     /\ payment_id = p
                     /\ payments'[p].content_id = content_id]_vars
    /\ [][(pc # "pd_link" /\ content_library' = content_library)
            => SameContentIds(payments')]_vars

\* one payment was expired by the janitor, the other one completed by the
\* callback and linked to its content by the write-back
C33_Witness ==
    \E p, q \in DOMAIN payments :
        /\ payments[p].status = "expired" /\ payments[p].content_id = NULL
        /\ payments[q].status = "delivered" /\ payments[q].content_id # NULL
        /\ linked[q] = 1

\* the expiry time of payment p has passed
Overdue(p) == now > RequestedAt(p) + REQUEST_EXPIRY_HOURS

\* C34: the janitor changes a row only if its status is pending and its
\* expiry time has passed, and then only its status; a payment becomes
\* expired only that way; and a payment waiting for delivery stays so until
\* the write-back of its own delivery.
C34_JanitorOnlyExpiresPending ==
    /\ [](\A p \in DOMAIN payments :
            LET after == cleanup_expired_pending_payments(payments, now)[p] IN
            /\ after # payments[p] =>
                  /\ payments[p].status = "pending"
                  /\ Overdue(p)
                  /\ after = [payments[p] EXCEPT !.status = "expired"]
            /\ PendingWhere(payments[p]) => PendingWhere(after))
    /\ [][\A p \in DOMAIN payments :
            (payments'[p].status = "expired" /\ payments[p].status # "expired")
                => (payments[p].status = "pending" /\ Overdue(p))]_vars
    /\ [][\A p \in DOMAIN payments :
            (PendingWhere(payments[p]) /\ ~PendingWhere(payments'[p]))
                => (pc = "pd_link" /\ payment_id = p)]_vars

\* the janitor has expired a payment while an older payment, completed and
\* past its expiry time, was waiting for delivery, and it still is
C34_Witness ==
    \E p, q \in DOMAIN payments :
        /\ payments[q].status = "expired"
        /\ RequestedAt(p) <= RequestedAt(q)
        /\ PendingWhere(payments[p])
        /\ Overdue(p)

(***************************************************************************)
(* Further properties of the strategies.                                   *)
(***************************************************************************)
\* C35: on every catalogue the keyword strategy, the default of
\* process_all_pending, has the results of the recent strategy, which the
\* scheduler passes; a call with keyword whose listing query answered
\* returns an item with the largest uploaded_at, None only for the empty
\* catalogue.
C35_KeywordIsRecent ==
    /\ [](\A listed \in BOOLEAN :
            determine_content_to_deliver(content_library, listed, "keyword")
              = determine_content_to_deliver(content_library, listed,
                                             "recent"))
    /\ [][(probe' # probe /\ probe'.fn = "keyword") =>
            /\ probe'.result \in
                 determine_content_to_deliver(content_library, probe'.listed,
                                              "recent")
            /\ probe'.listed => IsMostRecent(probe'.result)]_vars

\* the keyword strategy has returned the later of two uploads, whose
\* content_id is the smaller one
C35_Witness ==
    /\ probe.fn = "keyword"
    /\ probe.result \in DOMAIN content_library
    /\ \E d \in DOMAIN content_library :
          /\ UploadedAt(d) < UploadedAt(probe.result)
          /\ probe.result < d

(***************************************************************************)
(* The keyword matcher on a hint without tokens.                           *)
(***************************************************************************)
\* a call whose hint is empty or whitespace only, on a catalogue that is
\* not empty, with a listing query that answered
EmptyHintCall ==
    /\ probe.fn = "keyword"
    /\ probe.listed
    /\ Tokens(probe.hint) = {}
    /\ DOMAIN content_library # {}

NamedLikeHint == {c \in DOMAIN content_library : NameOf(c) = probe.hint}

====
